---------------------------- MODULE Spec2Model ----------------------------
(***************************************************************************)
(* Model of the LaReQA multilingual QA demo: the MultilingualQASystem      *)
(* engine (multilingual_qa_system.py) and the Flask service in front of it *)
(* (web_interface.py).                                                     *)
(*                                                                         *)
(* Text.  A Python str is modelled as a sequence of Unicode code points    *)
(* (naturals): "What is" is <<87, 104, 97, 116, 32, 105, 115>>.  File      *)
(* names are opaque TLA+ strings, the code only opens them.                *)
(*                                                                         *)
(* Scores.  simple_text_similarity returns the float intersection / union  *)
(* of two small naturals.  IEEE division is correctly rounded, so for the  *)
(* operand sizes of the model two quotients are equal (smaller) as floats  *)
(* exactly when they are equal (smaller) as rationals; a score is kept as  *)
(* the reduced fraction [num, den], 0.0 being 0/1 and 1.0 being 1/1.       *)
(***************************************************************************)
EXTENDS Integers, Sequences, FiniteSets, TLC

VARIABLES
  knowledge_base,  \* self.knowledge_base: the ordered list of records
  files,           \* the file system: file name -> NoFile or file content
  ret,             \* the outcome of the last engine call (value, raise, print)
  response,        \* the last request handled by the service and its response
  assigned,        \* history: for each id, the records add has given it
  text1, text2,    \* the arguments of a bare simple_text_similarity call
  score,           \* ... and what it returned
  handlers         \* the add requests the service's threads are handling

vars == <<knowledge_base, files, ret, response, assigned, text1, text2, score,
         handlers>>

---------------------------------------------------------------------------
(* Bounds of the model.                                                    *)

\* longest text drawn as an argument of a bare similarity call
MaxLen == 3
\* most records added on top of the seed store
MaxAdds == 2
\* largest top_k drawn for a search (beyond the largest store)
MaxK == 13

---------------------------------------------------------------------------
(* Python str operations.                                                  *)

\* str.isspace for one code point (the code points Python calls whitespace)
IsSpace(c) ==
  \/ (9 <= c /\ c <= 13)
  \/ (28 <= c /\ c <= 32)
  \/ c = 133 \/ c = 160 \/ c = 5760
  \/ (8192 <= c /\ c <= 8202)
  \/ c = 8232 \/ c = 8233 \/ c = 8239 \/ c = 8287 \/ c = 12288

\* str.lower for one code point: ASCII and Latin-1 capitals; every other
\* code point the model uses has no lower-case form
LowerChar(c) ==
  IF (65 <= c /\ c <= 90) \/ (192 <= c /\ c <= 222 /\ c # 215) THEN c + 32 ELSE c

\* text.lower()
lower(text) == [i \in 1..Len(text) |-> LowerChar(text[i])]

\* text.split(): the maximal runs of non-whitespace, left to right
RECURSIVE SplitFrom(_, _, _, _)
SplitFrom(text, i, cur, acc) ==
  IF i > Len(text)
    THEN IF cur = <<>> THEN acc ELSE Append(acc, cur)
    ELSE IF IsSpace(text[i])
      THEN SplitFrom(text, i + 1, <<>>, IF cur = <<>> THEN acc ELSE Append(acc, cur))
      ELSE SplitFrom(text, i + 1, Append(cur, text[i]), acc)

split(text) == SplitFrom(text, 1, <<>>, <<>>)

\* text.strip(): drop leading and trailing whitespace
strip(text) ==
  LET keep == {i \in 1..Len(text) : ~IsSpace(text[i])}
  IN  IF keep = {} THEN <<>>
      ELSE LET lo == CHOOSE i \in keep : \A j \in keep : i <= j
               hi == CHOOSE i \in keep : \A j \in keep : j <= i
           IN  SubSeq(text, lo, hi)

\* set(list)
SetOf(list) == {list[i] : i \in 1..Len(list)}

---------------------------------------------------------------------------
(* Float quotients of naturals, as reduced fractions.                      *)

RECURSIVE GCD(_, _)
GCD(a, b) == IF b = 0 THEN a ELSE GCD(b, a % b)

\* n / d for naturals n and d > 0
Div(n, d) == LET g == GCD(n, d) IN [num |-> n \div g, den |-> d \div g]

Zero == [num |-> 0, den |-> 1]
One == [num |-> 1, den |-> 1]

\* x < y on floats
Less(x, y) == x.num * y.den < y.num * x.den

\* Python max(x, y): the first of the largest arguments
max(x, y) == IF Less(x, y) THEN y ELSE x

---------------------------------------------------------------------------
(* MultilingualQASystem.simple_text_similarity                             *)

\* a wrong similarity: the overlap is divided by the first text's word count
simple_text_similarity_first(t1, t2) ==
  LET words1 == SetOf(split(lower(t1)))
      words2 == SetOf(split(lower(t2)))
      intersection == Cardinality(words1 \cap words2)
      n == Cardinality(words1)
  IN  IF n = 0 THEN Zero ELSE Div(intersection, n)

\* a wrong similarity: the union is counted as the two sizes added up
simple_text_similarity_sum(t1, t2) ==
  LET words1 == SetOf(split(lower(t1)))
      words2 == SetOf(split(lower(t2)))
      intersection == Cardinality(words1 \cap words2)
      union == Cardinality(words1) + Cardinality(words2)
  IN  IF union = 0 THEN Zero ELSE Div(intersection, union)

\* a wrong similarity: the texts are not case-folded
simple_text_similarity_cased(t1, t2) ==
  LET words1 == SetOf(split(t1))
      words2 == SetOf(split(t2))
      intersection == Cardinality(words1 \cap words2)
      union == Cardinality(words1 \cup words2)
  IN  IF union = 0 THEN Zero ELSE Div(intersection, union)

simple_text_similarity(t1, t2) ==
  LET words1 == SetOf(split(lower(t1)))
      words2 == SetOf(split(lower(t2)))
      intersection == Cardinality(words1 \cap words2)
      union == Cardinality(words1 \cup words2)
  IN  IF union = 0 THEN Zero ELSE Div(intersection, union)

---------------------------------------------------------------------------
(* MultilingualQASystem: the store and the search over it.                 *)

\* 'General', the default of add_to_knowledge_base's category parameter
General == <<71, 101, 110, 101, 114, 97, 108>>

\* self.supported_languages: en es fr de hi zh ar ja
supported_languages ==
  << <<101, 110>>, <<101, 115>>, <<102, 114>>, <<100, 101>>,
     <<104, 105>>, <<122, 104>>, <<97, 114>>, <<106, 97>> >>

\* _create_sample_knowledge_base: the ten seed records, ids, languages and
\* categories as in the source; each question and answer is cut to its first
\* three words (at most 28 code points) to keep the searches small
create_sample_knowledge_base ==
  <<
    \* id 1: question "What is artificial", answer "Artificial Intelligence (AI)"
    [id |-> 1, language |-> <<101, 110>>,
     question |-> <<87, 104, 97, 116, 32, 105, 115, 32, 97, 114, 116, 105, 102, 105, 99, 105, 97, 108>>,
     answer |-> <<65, 114, 116, 105, 102, 105, 99, 105, 97, 108, 32, 73, 110, 116, 101, 108, 108, 105, 103, 101, 110, 99, 101, 32, 40, 65, 73, 41>>,
     category |-> <<84, 101, 99, 104, 110, 111, 108, 111, 103, 121>>],
    \* id 2: question "?Qu? es el", answer "El aprendizaje autom?tico"
    [id |-> 2, language |-> <<101, 115>>,
     question |-> <<191, 81, 117, 233, 32, 101, 115, 32, 101, 108>>,
     answer |-> <<69, 108, 32, 97, 112, 114, 101, 110, 100, 105, 122, 97, 106, 101, 32, 97, 117, 116, 111, 109, 225, 116, 105, 99, 111>>,
     category |-> <<84, 101, 99, 104, 110, 111, 108, 111, 103, 121>>],
    \* id 3: question "Qu'est-ce que la", answer "La science des"
    [id |-> 3, language |-> <<102, 114>>,
     question |-> <<81, 117, 39, 101, 115, 116, 45, 99, 101, 32, 113, 117, 101, 32, 108, 97>>,
     answer |-> <<76, 97, 32, 115, 99, 105, 101, 110, 99, 101, 32, 100, 101, 115>>,
     category |-> <<84, 101, 99, 104, 110, 111, 108, 111, 103, 121>>],
    \* id 4: question "How does natural", answer "Natural Language Processing"
    [id |-> 4, language |-> <<101, 110>>,
     question |-> <<72, 111, 119, 32, 100, 111, 101, 115, 32, 110, 97, 116, 117, 114, 97, 108>>,
     answer |-> <<78, 97, 116, 117, 114, 97, 108, 32, 76, 97, 110, 103, 117, 97, 103, 101, 32, 80, 114, 111, 99, 101, 115, 115, 105, 110, 103>>,
     category |-> <<84, 101, 99, 104, 110, 111, 108, 111, 103, 121>>],
    \* id 5: question "Was ist neuronales", answer "Ein neuronales Netzwerk"
    [id |-> 5, language |-> <<100, 101>>,
     question |-> <<87, 97, 115, 32, 105, 115, 116, 32, 110, 101, 117, 114, 111, 110, 97, 108, 101, 115>>,
     answer |-> <<69, 105, 110, 32, 110, 101, 117, 114, 111, 110, 97, 108, 101, 115, 32, 78, 101, 116, 122, 119, 101, 114, 107>>,
     category |-> <<84, 101, 99, 104, 110, 111, 108, 111, 103, 121>>],
    \* id 6: question "???? ??????? ????", answer "???? ??????? ??"
    [id |-> 6, language |-> <<104, 105>>,
     question |-> <<2337, 2375, 2335, 2366, 32, 2357, 2367, 2332, 2381, 2334, 2366, 2344, 32, 2325, 2381, 2351, 2366>>,
     answer |-> <<2337, 2375, 2335, 2366, 32, 2357, 2367, 2332, 2381, 2334, 2366, 2344, 32, 2319, 2325>>,
     category |-> <<84, 101, 99, 104, 110, 111, 108, 111, 103, 121>>],
    \* id 7: question "What are the", answer "Machine learning benefits"
    [id |-> 7, language |-> <<101, 110>>,
     question |-> <<87, 104, 97, 116, 32, 97, 114, 101, 32, 116, 104, 101>>,
     answer |-> <<77, 97, 99, 104, 105, 110, 101, 32, 108, 101, 97, 114, 110, 105, 110, 103, 32, 98, 101, 110, 101, 102, 105, 116, 115>>,
     category |-> <<84, 101, 99, 104, 110, 111, 108, 111, 103, 121>>],
    \* id 8: question "????????", answer "????????????????????????????"
    [id |-> 8, language |-> <<122, 104>>,
     question |-> <<20160, 20040, 26159, 28145, 24230, 23398, 20064, 63>>,
     answer |-> <<28145, 24230, 23398, 20064, 26159, 26426, 22120, 23398, 20064, 30340, 19968, 20010, 23376, 38598, 65292, 23427, 20351, 29992, 22810, 23618, 31070, 32463, 32593, 32476, 26469, 23398, 20064, 25968>>,
     category |-> <<84, 101, 99, 104, 110, 111, 108, 111, 103, 121>>],
    \* id 9: question "?? ?? ????", answer "???? ????? ??"
    [id |-> 9, language |-> <<97, 114>>,
     question |-> <<1605, 1575, 32, 1607, 1608, 32, 1578, 1593, 1604, 1605>>,
     answer |-> <<1578, 1593, 1604, 1605, 32, 1575, 1604, 1570, 1604, 1577, 32, 1607, 1608>>,
     category |-> <<84, 101, 99, 104, 110, 111, 108, 111, 103, 121>>],
    \* id 10: question "???????????", answer "?????AI?????????????????????"
    [id |-> 10, language |-> <<106, 97>>,
     question |-> <<20154, 24037, 30693, 33021, 12392, 12399, 20309, 12391, 12377, 12363, 65311>>,
     answer |-> <<20154, 24037, 30693, 33021, 65288, 65, 73, 65289, 12399, 12289, 27231, 26800, 12289, 29305, 12395, 12467, 12531, 12500, 12517, 12540, 12479, 12471, 12473, 12486, 12512, 12395, 12424, 12427>>,
     category |-> <<84, 101, 99, 104, 110, 111, 108, 111, 103, 121>>]
  >>

\* the dict search_answers builds for one item of the store
ScoredResult(item, s) ==
  [id |-> item.id, question |-> item.question, answer |-> item.answer,
   language |-> item.language, category |-> item.category,
   similarity_score |-> s]

\* a wrong aggregate: the mean of the two field scores
ItemScore_mean(query, item) ==
  LET q == simple_text_similarity(query, item.question)
      a == simple_text_similarity(query, item.answer)
  IN  Div(q.num * a.den + a.num * q.den, 2 * q.den * a.den)

\* max_similarity of one item
ItemScore(query, item) ==
  LET q_similarity == simple_text_similarity(query, item.question)
      a_similarity == simple_text_similarity(query, item.answer)
  IN  max(q_similarity, a_similarity)

\* a wrong insertion: x goes in front of the entries of equal score
InsertSorted_unstable(sorted, x) ==
  LET lower_or_eq == {i \in 1..Len(sorted) :
                        ~Less(x.similarity_score, sorted[i].similarity_score)}
      p == IF lower_or_eq = {} THEN Len(sorted) + 1
           ELSE CHOOSE i \in lower_or_eq : \A j \in lower_or_eq : i <= j
  IN  SubSeq(sorted, 1, p - 1) \o <<x>> \o SubSeq(sorted, p, Len(sorted))

\* x put into a list sorted by descending score, behind every entry whose
\* score is not smaller: list.sort is stable, with reverse=True as well
InsertSorted(sorted, x) ==
  LET smaller == {i \in 1..Len(sorted) :
                    Less(sorted[i].similarity_score, x.similarity_score)}
      p == IF smaller = {} THEN Len(sorted) + 1
           ELSE CHOOSE i \in smaller : \A j \in smaller : i <= j
  IN  SubSeq(sorted, 1, p - 1) \o <<x>> \o SubSeq(sorted, p, Len(sorted))

\* results.sort(key=lambda x: x['similarity_score'], reverse=True)
RECURSIVE SortFrom(_, _, _)
SortFrom(results, i, sorted) ==
  IF i > Len(results) THEN sorted
  ELSE SortFrom(results, i + 1, InsertSorted(sorted, results[i]))

sort_by_score(results) == SortFrom(results, 1, <<>>)

\* list[:k]
SlicePrefix(list, k) ==
  IF k >= 0
    THEN SubSeq(list, 1, IF k < Len(list) THEN k ELSE Len(list))
    ELSE SubSeq(list, 1, IF Len(list) + k > 0 THEN Len(list) + k ELSE 0)

\* the loop over self.knowledge_base: one scored dict appended per item
RECURSIVE ScoreFrom(_, _, _, _)
ScoreFrom(kb, query, i, results) ==
  IF i > Len(kb) THEN results
  ELSE ScoreFrom(kb, query, i + 1,
                 Append(results, ScoredResult(kb[i], ItemScore(query, kb[i]))))

\* a wrong search: the records that score 0 are left out
search_answers_nonzero(kb, query, top_k) ==
  SlicePrefix(sort_by_score(SelectSeq(ScoreFrom(kb, query, 1, <<>>),
                                      LAMBDA r : Less(Zero, r.similarity_score))),
              top_k)

search_answers(kb, query, top_k) ==
  SlicePrefix(sort_by_score(ScoreFrom(kb, query, 1, <<>>)), top_k)

\* max([item['id'] for item in kb]), kb not empty
MaxId(kb) ==
  LET ids == {kb[i].id : i \in 1..Len(kb)}
  IN  CHOOSE m \in ids : \A n \in ids : n <= m

\* new_id
NewId(kb) == MaxId(kb) + 1

\* a wrong add: a language and question already in the store are not added
add_to_knowledge_base_unique(kb, language, question, answer, category) ==
  IF \E i \in 1..Len(kb) : kb[i].language = language /\ kb[i].question = question
    THEN kb
    ELSE Append(kb, [id |-> NewId(kb), language |-> language, question |-> question,
                     answer |-> answer, category |-> category])

\* the store after add_to_knowledge_base, kb not empty
add_to_knowledge_base(kb, language, question, answer, category) ==
  Append(kb, [id |-> NewId(kb), language |-> language, question |-> question,
              answer |-> answer, category |-> category])

\* a wrong call: the first record of an empty store is given the id 1
AddOutcome_first_id(kb, language, question, answer, category) ==
  [raised |-> "",
   store |-> IF kb = <<>>
               THEN << [id |-> 1, language |-> language, question |-> question,
                        answer |-> answer, category |-> category] >>
               ELSE add_to_knowledge_base(kb, language, question, answer, category)]

\* the call of add_to_knowledge_base: max() of the empty list of ids raises
\* ValueError before new_id is bound and before anything is appended
AddOutcome(kb, language, question, answer, category) ==
  IF kb = <<>>
    THEN [raised |-> "ValueError", store |-> kb]
    ELSE [raised |-> "",
          store |-> add_to_knowledge_base(kb, language, question, answer, category)]

\* how often each value of a field occurs in the store
CountBy(kb, field) ==
  LET seen == {kb[i][field] : i \in 1..Len(kb)}
  IN  [v \in seen |-> Cardinality({i \in 1..Len(kb) : kb[i][field] = v})]

get_statistics(kb) ==
  [total_entries |-> Len(kb),
   languages |-> CountBy(kb, "language"),
   categories |-> CountBy(kb, "category")]

---------------------------------------------------------------------------
(* json.dump(..., ensure_ascii=False) and json.load of the store.          *)
(* A document is the list of its objects, an object the list of its        *)
(* members in the dict's order, a member a key with a number (the id) or   *)
(* a string literal: the code points between the quotes, escaped.          *)

\* the lower-case hex digit of n < 16
HexDigit(n) == IF n < 10 THEN 48 + n ELSE 87 + n

\* the value of a hex digit
HexValue(c) == IF c \in 48..57 THEN c - 48 ELSE IF c \in 97..102 THEN c - 87 ELSE c - 55

\* a wrong encoder: written in an ASCII encoding that replaces what it
\* cannot encode
EscapeChar_ascii(c) ==
  IF c > 127 THEN <<63>>
  ELSE IF c = 34 THEN <<92, 34>>
  ELSE IF c = 92 THEN <<92, 92>>
  ELSE IF c = 10 THEN <<92, 110>>
  ELSE IF c = 13 THEN <<92, 114>>
  ELSE IF c = 9 THEN <<92, 116>>
  ELSE IF c = 8 THEN <<92, 98>>
  ELSE IF c = 12 THEN <<92, 102>>
  ELSE IF c < 32 THEN <<92, 117, 48, 48, HexDigit(c \div 16), HexDigit(c % 16)>>
  ELSE <<c>>

\* what the encoder writes for one code point of a string
EscapeChar(c) ==
  IF c = 34 THEN <<92, 34>>
  ELSE IF c = 92 THEN <<92, 92>>
  ELSE IF c = 10 THEN <<92, 110>>
  ELSE IF c = 13 THEN <<92, 114>>
  ELSE IF c = 9 THEN <<92, 116>>
  ELSE IF c = 8 THEN <<92, 98>>
  ELSE IF c = 12 THEN <<92, 102>>
  ELSE IF c < 32 THEN <<92, 117, 48, 48, HexDigit(c \div 16), HexDigit(c % 16)>>
  ELSE <<c>>

RECURSIVE EscapeFrom(_, _, _)
EscapeFrom(text, i, acc) ==
  IF i > Len(text) THEN acc
  ELSE EscapeFrom(text, i + 1, acc \o EscapeChar(text[i]))

EncodeString(text) == EscapeFrom(text, 1, <<>>)

\* the decoder: a backslash starts an escape
RECURSIVE UnescapeFrom(_, _, _)
UnescapeFrom(chars, i, acc) ==
  IF i > Len(chars) THEN acc
  ELSE IF chars[i] # 92 THEN UnescapeFrom(chars, i + 1, Append(acc, chars[i]))
  ELSE LET e == chars[i + 1]
       IN  IF e = 117
             THEN UnescapeFrom(chars, i + 6,
                    Append(acc, 4096 * HexValue(chars[i + 2]) + 256 * HexValue(chars[i + 3])
                                + 16 * HexValue(chars[i + 4]) + HexValue(chars[i + 5])))
             ELSE UnescapeFrom(chars, i + 2,
                    Append(acc, IF e = 110 THEN 10
                                ELSE IF e = 114 THEN 13
                                ELSE IF e = 116 THEN 9
                                ELSE IF e = 98 THEN 8
                                ELSE IF e = 102 THEN 12
                                ELSE e))

DecodeString(chars) == UnescapeFrom(chars, 1, <<>>)

JsonNumber(n) == [type |-> "number", number |-> n, chars |-> <<>>]
JsonString(text) == [type |-> "string", number |-> 0, chars |-> EncodeString(text)]

\* one record as a JSON object, members in the dict's insertion order
DumpRecord(r) ==
  << [key |-> "id", value |-> JsonNumber(r.id)],
     [key |-> "language", value |-> JsonString(r.language)],
     [key |-> "question", value |-> JsonString(r.question)],
     [key |-> "answer", value |-> JsonString(r.answer)],
     [key |-> "category", value |-> JsonString(r.category)] >>

json_dump(kb) == [i \in 1..Len(kb) |-> DumpRecord(kb[i])]

LoadValue(v) == IF v.type = "number" THEN v.number ELSE DecodeString(v.chars)

\* the dict of one JSON object
LoadRecord(obj) ==
  LET member(k) == CHOOSE i \in 1..Len(obj) : obj[i].key = k
  IN  [k \in {obj[i].key : i \in 1..Len(obj)} |-> LoadValue(obj[member(k)].value)]

json_load(doc) == [i \in 1..Len(doc) |-> LoadRecord(doc[i])]

\* a file that does not exist, and a file holding a document
NoFile == [exists |-> FALSE, content |-> <<>>]
FileOf(doc) == [exists |-> TRUE, content |-> doc]

---------------------------------------------------------------------------
(* Inputs the calls are drawn from.                                        *)

\* the file names load is called with: the default of the filename
\* parameter, and the file the demonstration saves to
FileNames == {"knowledge_base.json", "lareqa_knowledge_base.json"}

\* the file names save is called with
SaveNames == {"lareqa_knowledge_base.json"}

\* queries: "what is", "Natural LANGUAGE", "a", "  " and ""
Queries ==
  { <<119, 104, 97, 116, 32, 105, 115>>,
    <<78, 97, 116, 117, 114, 97, 108, 32, 76, 65, 78, 71, 85, 65, 71, 69>>,
    <<97>>, <<32, 32>>, <<>> }

\* top_k: a negative one, none, the defaults 3 and 5, more than the store holds
KValues == {-1, 0, 1, 3, 5, MaxK}

\* the arguments of a direct add: (language, question, answer, category)
\*   ('en', 'What is artificial', 'A b', 'General'): the language and
\*      question of seed record 1 again
\*   ('pt', 'a', 'what is', 'Technology')
\*   ('ja', 'q"\\', 'a\n\tb\x01\u3042', 'General'): a quote, a backslash,
\*      control characters and a character outside ASCII
AddArgs ==
  { << <<101, 110>>,
       <<87, 104, 97, 116, 32, 105, 115, 32, 97, 114, 116, 105, 102, 105, 99, 105, 97, 108>>,
       <<65, 32, 98>>, General >>,
    << <<112, 116>>, <<97>>, <<119, 104, 97, 116, 32, 105, 115>>,
       <<84, 101, 99, 104, 110, 111, 108, 111, 103, 121>> >>,
    << <<106, 97>>, <<113, 34, 92>>, <<97, 10, 9, 98, 1, 12354>>, General >> }

\* the texts of at most MaxLen code points over "a", "A", "b" and " "
Alphabet == {97, 65, 98, 32}
Texts == UNION {[1..n -> Alphabet] : n \in 0..MaxLen}

\* the file system the process starts in: a knowledge_base.json that holds
\* the empty list, and no other file
InitialFiles ==
  [f \in FileNames |->
     IF f = "knowledge_base.json" THEN FileOf(json_dump(<<>>)) ELSE NoFile]

NoCall == [op |-> "none"]
NoResponse == [endpoint |-> "none"]

\* the threads the service handles add requests in, and a thread with no
\* request
Threads == {"thread-1", "thread-2"}
NoRequest == [pc |-> "idle", data |-> <<>>, new_id |-> 0, status |-> 0]
NoHandlers == [t \in Threads |-> NoRequest]

---------------------------------------------------------------------------
(* The engine's calls.                                                     *)

\* __init__
Init ==
  /\ knowledge_base = create_sample_knowledge_base
  /\ files = InitialFiles
  /\ ret = NoCall
  /\ response = NoResponse
  /\ assigned = {}
  /\ text1 = <<>>
  /\ text2 = <<>>
  /\ score = Zero
  /\ handlers = NoHandlers

\* no call is under way: the caller has taken the last outcome
Idle == ret = NoCall /\ response = NoResponse

SearchAnswers(query, top_k) ==
  /\ Idle
  /\ ret' = [op |-> "search_answers", query |-> query, top_k |-> top_k,
             raised |-> "", value |-> search_answers(knowledge_base, query, top_k)]
  /\ UNCHANGED <<knowledge_base, files, response, assigned, text1, text2,
                 score, handlers>>

\* a call that raises prints nothing and has changed nothing
AddToKnowledgeBase(language, question, answer, category) ==
  /\ Idle
  /\ Len(knowledge_base) < Len(create_sample_knowledge_base) + MaxAdds
  /\ LET out == AddOutcome(knowledge_base, language, question, answer, category)
         kb == out.store
     IN  IF out.raised # ""
           THEN /\ ret' = [op |-> "add_to_knowledge_base", raised |-> out.raised,
                           printed |-> "", new_id |-> 0]
                /\ knowledge_base' = kb
                /\ UNCHANGED assigned
           ELSE /\ knowledge_base' = kb
                /\ assigned' = assigned \cup {kb[Len(kb)]}
                /\ ret' = [op |-> "add_to_knowledge_base", raised |-> "",
                           printed |-> "Successfully added new Q&A pair",
                           new_id |-> kb[Len(kb)].id]
  /\ UNCHANGED <<files, response, text1, text2, score, handlers>>

GetStatistics ==
  /\ Idle
  /\ ret' = [op |-> "get_statistics", raised |-> "",
             value |-> get_statistics(knowledge_base)]
  /\ UNCHANGED <<knowledge_base, files, response, assigned, text1, text2,
                 score, handlers>>

SaveKnowledgeBase(filename) ==
  /\ Idle
  /\ files' = [files EXCEPT ![filename] = FileOf(json_dump(knowledge_base))]
  /\ ret' = [op |-> "save_knowledge_base", filename |-> filename, raised |-> "",
             printed |-> "Knowledge base saved"]
  /\ UNCHANGED <<knowledge_base, response, assigned, text1, text2, score,
                 handlers>>

\* a wrong load: a missing file empties the store
LoadedStore_reset(kb, file) ==
  IF file.exists THEN json_load(file.content) ELSE <<>>

\* self.knowledge_base after load_knowledge_base
LoadedStore(kb, file) ==
  IF file.exists THEN json_load(file.content) ELSE kb

LoadKnowledgeBase(filename) ==
  /\ Idle
  /\ knowledge_base' = LoadedStore(knowledge_base, files[filename])
  /\ ret' = [op |-> "load_knowledge_base", filename |-> filename, raised |-> "",
             printed |-> IF files[filename].exists THEN "Knowledge base loaded"
                         ELSE "File not found"]
  /\ UNCHANGED <<files, response, assigned, text1, text2, score, handlers>>

\* the call returns: the caller takes its outcome and goes on
Return ==
  /\ ~Idle
  /\ ret' = NoCall
  /\ response' = NoResponse
  /\ UNCHANGED <<knowledge_base, files, assigned, text1, text2, score,
                 handlers>>

\* the retrieval engine: searches over a store that grows and is reloaded
Next ==
  \/ \E q \in Queries, k \in KValues : SearchAnswers(q, k)
  \/ \E a \in AddArgs : AddToKnowledgeBase(a[1], a[2], a[3], a[4])
  \/ GetStatistics
  \/ \E f \in FileNames : LoadKnowledgeBase(f)
  \/ Return

Spec == Init /\ [][Next]_vars

\* the records added between saves and loads: those of category 'General'
PersistAddArgs == {a \in AddArgs : a[4] = General}

\* the store and its files: add, save and load in any order
NextPersist ==
  \/ \E a \in PersistAddArgs : AddToKnowledgeBase(a[1], a[2], a[3], a[4])
  \/ \E f \in SaveNames : SaveKnowledgeBase(f)
  \/ \E f \in FileNames : LoadKnowledgeBase(f)
  \/ Return

SpecPersist == Init /\ [][NextPersist]_vars

---------------------------------------------------------------------------
(* web_interface.py: the service in front of one process-wide qa_system.   *)

\* data.get(key, default) on the request's JSON object
get(data, key, default) == IF key \in DOMAIN data THEN data[key] ELSE default

\* all([language, question, answer]): no string is empty
all_given(language, question, answer) ==
  language # <<>> /\ question # <<>> /\ answer # <<>>

\* language in qa_system.supported_languages
is_supported(language) ==
  \E i \in 1..Len(supported_languages) : supported_languages[i] = language

\* a wrong validation: the language list is not consulted
Accepts_any_language(language, question, answer) ==
  all_given(language, question, answer)

\* the two checks an add request passes before the store is touched
Accepts(language, question, answer) ==
  all_given(language, question, answer) /\ is_supported(language)

\* a wrong filter: every result of the search is kept
PositiveFrom_all(results, i, kept) == results

\* [r for r in results if r['similarity_score'] > 0]
RECURSIVE PositiveFrom(_, _, _)
PositiveFrom(results, i, kept) ==
  IF i > Len(results) THEN kept
  ELSE PositiveFrom(results, i + 1,
         IF Less(Zero, results[i].similarity_score)
           THEN Append(kept, results[i]) ELSE kept)

\* top_k of the service's search
WebTopK == 5

\* POST /ask
AskQuestion(data) ==
  /\ Idle
  /\ LET question == strip(get(data, "question", <<>>))
         results == PositiveFrom(search_answers(knowledge_base, question, WebTopK), 1, <<>>)
     IN  response' =
           IF question = <<>>
             THEN [endpoint |-> "/ask", request |-> data, status |-> 400,
                   body |-> [error |-> "Please enter a question"]]
           ELSE IF results = <<>>
             THEN [endpoint |-> "/ask", request |-> data, status |-> 200,
                   body |-> [question |-> question, results |-> <<>>,
                             message |-> "No relevant answers found", count |-> 0]]
           ELSE [endpoint |-> "/ask", request |-> data, status |-> 200,
                 body |-> [question |-> question, results |-> results,
                           message |-> "Found relevant answer(s)",
                           count |-> Len(results)]]
  /\ UNCHANGED <<knowledge_base, files, ret, assigned, text1, text2, score,
                 handlers>>

\* POST /add: validate, add, save; an exception of the engine (the add on an
\* empty store) is answered 500 by the framework
AddKnowledge(data) ==
  /\ Idle
  /\ Len(knowledge_base) < Len(create_sample_knowledge_base) + MaxAdds
  /\ LET language == strip(get(data, "language", <<>>))
         question == strip(get(data, "question", <<>>))
         answer == strip(get(data, "answer", <<>>))
         category == strip(get(data, "category", General))
     IN  IF ~all_given(language, question, answer)
           THEN /\ response' = [endpoint |-> "/add", request |-> data, status |-> 400,
                                body |-> [error |-> "All fields (language, question, answer) are required"]]
                /\ UNCHANGED <<knowledge_base, files, assigned>>
         ELSE IF ~Accepts(language, question, answer)
           THEN /\ response' = [endpoint |-> "/add", request |-> data, status |-> 400,
                                body |-> [error |-> "Unsupported language"]]
                /\ UNCHANGED <<knowledge_base, files, assigned>>
         ELSE IF knowledge_base = <<>>
           THEN /\ response' = [endpoint |-> "/add", request |-> data, status |-> 500,
                                body |-> [error |-> "ValueError"]]
                /\ UNCHANGED <<knowledge_base, files, assigned>>
         ELSE LET kb == add_to_knowledge_base(knowledge_base, language, question,
                                              answer, category)
              IN  /\ knowledge_base' = kb
                  /\ assigned' = assigned \cup {kb[Len(kb)]}
                  /\ files' = [files EXCEPT !["web_knowledge_base.json"] = FileOf(json_dump(kb))]
                  /\ response' = [endpoint |-> "/add", request |-> data, status |-> 200,
                                  body |-> [success |-> TRUE,
                                            message |-> "Q&A pair added successfully!"]]
  /\ UNCHANGED <<ret, text1, text2, score, handlers>>

\* GET /stats
GetStats ==
  /\ Idle
  /\ response' = [endpoint |-> "/stats", request |-> <<>>, status |-> 200,
                  body |-> get_statistics(knowledge_base)]
  /\ UNCHANGED <<knowledge_base, files, ret, assigned, text1, text2, score,
                 handlers>>

\* the request bodies of /ask: "what is" between blanks, "a", "zz", "  ",
\* "", "what el la natural ist are" (a word of six seed records), and no
\* question at all; with and without a top_k
AskTexts ==
  { <<32, 119, 104, 97, 116, 32, 105, 115, 32>>, <<97>>, <<122, 122>>, <<32, 32>>, <<>>,
    <<119, 104, 97, 116, 32, 101, 108, 32, 108, 97, 32, 110, 97, 116, 117, 114, 97, 108,
      32, 105, 115, 116, 32, 97, 114, 101>> }

AskRequests ==
  {[question |-> q] : q \in AskTexts}
    \cup {[question |-> q, top_k |-> 1] : q \in AskTexts}
    \cup {[top_k |-> 1]}

\* the request bodies of /add
\*   languages: "en", " en ", "xx" (not supported), "  " and ""
\*   questions: "a", " " ; answers: "b", "" ; either may be missing
\*   categories: "Technology", " ", "", or missing
AddLanguages == { <<101, 110>>, <<32, 101, 110, 32>>, <<120, 120>>, <<32, 32>>, <<>> }
AddQuestions == { <<97>>, <<32>> }
AddAnswers == { <<98>>, <<>> }
AddCategories == { <<84, 101, 99, 104, 110, 111, 108, 111, 103, 121>>, <<32>>, <<>> }

AddRequests ==
  {[language |-> l, question |-> q, answer |-> a, category |-> c] :
     l \in AddLanguages, q \in AddQuestions, a \in AddAnswers, c \in AddCategories}
    \cup {[language |-> l, question |-> q, answer |-> a] :
            l \in AddLanguages, q \in AddQuestions, a \in AddAnswers}
    \cup {[question |-> q, answer |-> a] : q \in AddQuestions, a \in AddAnswers}
    \cup {[language |-> l, answer |-> a] : l \in AddLanguages, a \in AddAnswers}
    \cup {[language |-> l, question |-> q] : l \in AddLanguages, q \in AddQuestions}

\* the service starts with the seed store and no web_knowledge_base.json
InitWeb ==
  /\ knowledge_base = create_sample_knowledge_base
  /\ files = [f \in FileNames \cup {"web_knowledge_base.json"} |-> NoFile]
  /\ ret = NoCall
  /\ response = NoResponse
  /\ assigned = {}
  /\ text1 = <<>>
  /\ text2 = <<>>
  /\ score = Zero
  /\ handlers = NoHandlers

NextWeb ==
  \/ \E d \in AskRequests : AskQuestion(d)
  \/ \E d \in AddRequests : AddKnowledge(d)
  \/ GetStats
  \/ Return

SpecWeb == InitWeb /\ [][NextWeb]_vars

---------------------------------------------------------------------------
(* A bare call of simple_text_similarity on any two texts.                 *)

InitSim ==
  /\ knowledge_base = create_sample_knowledge_base
  /\ files = InitialFiles
  /\ ret = NoCall
  /\ response = NoResponse
  /\ assigned = {}
  /\ text1 \in Texts
  /\ text2 \in Texts
  /\ score = Zero
  /\ handlers = NoHandlers

SimpleTextSimilarity ==
  /\ Idle
  /\ score' = simple_text_similarity(text1, text2)
  /\ ret' = [op |-> "simple_text_similarity"]
  /\ UNCHANGED <<knowledge_base, files, response, assigned, text1, text2,
                 handlers>>

NextSim == SimpleTextSimilarity

SpecSim == InitSim /\ [][NextSim]_vars

---------------------------------------------------------------------------
(* Add requests handled by the service's threads at the same time: the     *)
(* development server of app.run handles each request in a thread of its   *)
(* own, and every thread works on the one qa_system of the process. A      *)
(* thread may be switched out between any two statements of add_knowledge  *)
(* and add_to_knowledge_base; nothing in either takes a lock.              *)

\* new_entry
new_entry(new_id, language, question, answer, category) ==
  [id |-> new_id, language |-> language, question |-> question,
   answer |-> answer, category |-> category]

\* the locals of add_knowledge
LanguageOf(data) == strip(get(data, "language", <<>>))
QuestionOf(data) == strip(get(data, "question", <<>>))
AnswerOf(data) == strip(get(data, "answer", <<>>))
CategoryOf(data) == strip(get(data, "category", General))

\* the request arrives: its fields are stripped and validated
AddKnowledgeValidate(t, data) ==
  /\ handlers[t].pc = "idle"
  /\ handlers' =
       [handlers EXCEPT ![t] =
          IF Accepts(LanguageOf(data), QuestionOf(data), AnswerOf(data))
            THEN [pc |-> "read_max", data |-> data, new_id |-> 0, status |-> 0]
            ELSE [pc |-> "done", data |-> data, new_id |-> 0, status |-> 400]]
  /\ UNCHANGED <<knowledge_base, files, ret, response, assigned, text1, text2, score>>

\* new_id = max([item['id'] for item in self.knowledge_base]) + 1
AddKnowledgeReadMax(t) ==
  /\ handlers[t].pc = "read_max"
  /\ handlers' =
       [handlers EXCEPT ![t] =
          IF knowledge_base = <<>>
            THEN [@ EXCEPT !.pc = "done", !.status = 500]
            ELSE [@ EXCEPT !.pc = "append", !.new_id = NewId(knowledge_base)]]
  /\ UNCHANGED <<knowledge_base, files, ret, response, assigned, text1, text2, score>>

\* self.knowledge_base.append(new_entry)
AddKnowledgeAppend(t) ==
  /\ handlers[t].pc = "append"
  /\ LET data == handlers[t].data
         entry == new_entry(handlers[t].new_id, LanguageOf(data), QuestionOf(data),
                            AnswerOf(data), CategoryOf(data))
     IN  /\ knowledge_base' = Append(knowledge_base, entry)
         /\ assigned' = assigned \cup {entry}
  /\ handlers' = [handlers EXCEPT ![t].pc = "save"]
  /\ UNCHANGED <<files, ret, response, text1, text2, score>>

\* qa_system.save_knowledge_base('web_knowledge_base.json'), then the
\* response
AddKnowledgeSave(t) ==
  /\ handlers[t].pc = "save"
  /\ files' = [files EXCEPT !["web_knowledge_base.json"] =
                 FileOf(json_dump(knowledge_base))]
  /\ handlers' = [handlers EXCEPT ![t].pc = "done", ![t].status = 200]
  /\ UNCHANGED <<knowledge_base, ret, response, assigned, text1, text2, score>>

\* the requests the threads are given:
\*   {"language": "en", "question": "a", "answer": "b"}
\*   {"language": " es ", "question": "what is", "answer": "b",
\*    "category": "Technology"}
\*   {"language": "xx", "question": "a", "answer": "b"}: not supported
ConcurrentRequests ==
  { [language |-> <<101, 110>>, question |-> <<97>>, answer |-> <<98>>],
    [language |-> <<32, 101, 115, 32>>, question |-> <<119, 104, 97, 116, 32, 105, 115>>,
     answer |-> <<98>>,
     category |-> <<84, 101, 99, 104, 110, 111, 108, 111, 103, 121>>],
    [language |-> <<120, 120>>, question |-> <<97>>, answer |-> <<98>>] }

InitConcurrent ==
  /\ knowledge_base = create_sample_knowledge_base
  /\ files = [f \in FileNames \cup {"web_knowledge_base.json"} |-> NoFile]
  /\ ret = NoCall
  /\ response = NoResponse
  /\ assigned = {}
  /\ text1 = <<>>
  /\ text2 = <<>>
  /\ score = Zero
  /\ handlers = NoHandlers

NextConcurrent ==
  \/ \E t \in Threads, d \in ConcurrentRequests : AddKnowledgeValidate(t, d)
  \/ \E t \in Threads : AddKnowledgeReadMax(t)
  \/ \E t \in Threads : AddKnowledgeAppend(t)
  \/ \E t \in Threads : AddKnowledgeSave(t)

SpecConcurrent == InitConcurrent /\ [][NextConcurrent]_vars

---------------------------------------------------------------------------
(* Properties of search_answers, checked under Spec.                       *)

\* the outcome at hand is that of a search
Searched == ret.op = "search_answers"

\* where the record with this id stands in the store
StorePos(id) == CHOOSE p \in 1..Len(knowledge_base) : knowledge_base[p].id = id

\* C1: the list search_answers returns is sorted non-increasing by
\* similarity_score, and two returned records of equal score stand in the
\* order they have in the store (insertion order)
C1_SortedStable ==
  Searched =>
    \A i, j \in 1..Len(ret.value) :
      i < j =>
        /\ ~Less(ret.value[i].similarity_score, ret.value[j].similarity_score)
        /\ ret.value[i].similarity_score = ret.value[j].similarity_score
             => StorePos(ret.value[i].id) < StorePos(ret.value[j].id)

\* a search that returned two records tied at a positive score, followed by
\* a record of a smaller positive score
C1_Witness ==
  /\ Searched
  /\ \E i, j, m \in 1..Len(ret.value) :
       /\ i < j /\ j < m
       /\ ret.value[i].similarity_score = ret.value[j].similarity_score
       /\ Less(ret.value[m].similarity_score, ret.value[j].similarity_score)
       /\ Less(Zero, ret.value[m].similarity_score)

\* C2: for top_k >= 0, search_answers returns exactly min(top_k, store size)
\* results, whatever the scores are
C2_ResultLength ==
  (Searched /\ ret.top_k >= 0) =>
    Len(ret.value) = IF ret.top_k < Len(knowledge_base) THEN ret.top_k
                     ELSE Len(knowledge_base)

\* a search with top_k beyond the size of a grown store whose query matches
\* nothing: every record comes back, each with score 0
C2_Witness ==
  /\ Searched
  /\ ret.top_k > Len(knowledge_base)
  /\ Len(knowledge_base) > Len(create_sample_knowledge_base)
  /\ Len(ret.value) = Len(knowledge_base)
  /\ \A i \in 1..Len(ret.value) : ret.value[i].similarity_score = Zero

\* C3: every result carries the id, language, question, answer and category
\* of one store record, and its similarity_score is the larger of the
\* query's similarity with the question and with the answer
C3_FieldsAndMaxScore ==
  Searched =>
    \A i \in 1..Len(ret.value) :
      LET r == ret.value[i]
          q == simple_text_similarity(ret.query, r.question)
          a == simple_text_similarity(ret.query, r.answer)
      IN  /\ \E p \in 1..Len(knowledge_base) :
               /\ knowledge_base[p].id = r.id
               /\ knowledge_base[p].language = r.language
               /\ knowledge_base[p].question = r.question
               /\ knowledge_base[p].answer = r.answer
               /\ knowledge_base[p].category = r.category
          /\ r.similarity_score \in {q, a}
          /\ ~Less(r.similarity_score, q)
          /\ ~Less(r.similarity_score, a)

\* a result whose question and answer both match the query, the answer
\* better than the question
C3_Witness ==
  /\ Searched
  /\ \E i \in 1..Len(ret.value) :
       LET q == simple_text_similarity(ret.query, ret.value[i].question)
           a == simple_text_similarity(ret.query, ret.value[i].answer)
       IN  Less(Zero, q) /\ Less(q, a) /\ ret.value[i].similarity_score = a

---------------------------------------------------------------------------
(* Properties of simple_text_similarity, checked under SpecSim.            *)

\* the bare similarity call has returned
Scored == ret.op = "simple_text_similarity"

\* the words of a text, stated without the scan: the case-folded maximal
\* stretches free of whitespace
WordsOf(text) ==
  LET t == lower(text)
  IN  {SubSeq(t, i, j) : <<i, j>> \in
         {p \in (1..Len(t)) \X (1..Len(t)) :
            /\ p[1] <= p[2]
            /\ \A k \in p[1]..p[2] : ~IsSpace(t[k])
            /\ (p[1] = 1 \/ IsSpace(t[p[1] - 1]))
            /\ (p[2] = Len(t) \/ IsSpace(t[p[2] + 1]))}}

\* C4: simple_text_similarity is symmetric, score(a, b) = score(b, a)
C4_Symmetric == Scored => score = simple_text_similarity(text2, text1)

\* a call on two texts with different word sets that share a word
C4_Witness ==
  /\ Scored
  /\ WordsOf(text1) # WordsOf(text2)
  /\ Cardinality(WordsOf(text1)) # Cardinality(WordsOf(text2))
  /\ Less(Zero, score)

\* C5 as claimed: every text of length >= 1, one of whitespace alone
\* included, has similarity 1.0 with itself
C5_SelfSimilarityAnyNonEmpty ==
  (Scored /\ text1 = text2 /\ Len(text1) >= 1) => score = One

\* C5: every text that holds at least one character that is not whitespace
\* has similarity 1.0 with itself
C5_SelfSimilarity ==
  (Scored /\ text1 = text2 /\ \E i \in 1..Len(text1) : ~IsSpace(text1[i]))
    => score = One

\* a text of two different words compared with itself
C5_Witness ==
  /\ Scored
  /\ text1 = text2
  /\ Cardinality(WordsOf(text1)) = 2
  /\ score = One

\* C6: the similarity is |A n B| / |A u B| for the sets A, B of case-folded
\* whitespace-separated words of the two texts, 0.0 when both are empty; it
\* lies in [0, 1] and is 0.0 when A and B are disjoint
C6_Jaccard ==
  Scored =>
    LET A == WordsOf(text1)
        B == WordsOf(text2)
    IN  /\ (A \cup B = {}) => score = Zero
        /\ (A \cup B # {}) =>
             score.num * Cardinality(A \cup B) = Cardinality(A \cap B) * score.den
        /\ score.den > 0 /\ 0 <= score.num /\ score.num <= score.den
        /\ (A \cap B = {}) => score = Zero

\* a call whose texts share one of two words, in different case
C6_Witness ==
  /\ Scored
  /\ score = Div(1, 2)
  /\ \E i \in 1..Len(text1) : text1[i] = 65
  /\ \A i \in 1..Len(text2) : text2[i] # 65

---------------------------------------------------------------------------
(* Properties of add_to_knowledge_base, checked under Spec.                *)

\* the records add_to_knowledge_base has appended and that are in the store
Appended(id) == \E r \in assigned : r.id = id

\* C7: add_to_knowledge_base on a non-empty store appends exactly one record,
\* last, with id max(existing ids) + 1 (11 on the seed store), whether or not
\* its language and question are in the store already, and leaves the
\* existing records as they are; a later search returns an appended record
\* behind every record of the same score that was in the store before it
C7_AddAppends ==
  [][ /\ (ret'.op = "add_to_knowledge_base" /\ knowledge_base # <<>>) =>
           /\ Len(knowledge_base') = Len(knowledge_base) + 1
           /\ SubSeq(knowledge_base', 1, Len(knowledge_base)) = knowledge_base
           /\ \A i \in 1..Len(knowledge_base) :
                knowledge_base[i].id < knowledge_base'[Len(knowledge_base')].id
           /\ \E i \in 1..Len(knowledge_base) :
                knowledge_base[i].id + 1 = knowledge_base'[Len(knowledge_base')].id
           /\ knowledge_base = create_sample_knowledge_base
                => knowledge_base'[Len(knowledge_base')].id = 11
           /\ ret'.raised = ""
      /\ ret'.op = "search_answers" =>
           \A i, j \in 1..Len(ret'.value) :
             ( /\ Appended(ret'.value[j].id)
               /\ StorePos(ret'.value[i].id) < StorePos(ret'.value[j].id)
               /\ ret'.value[i].similarity_score = ret'.value[j].similarity_score )
             => i < j
    ]_vars

\* a search over a store to which the language and question of seed record 1
\* were added again: both records come back with the same positive score
C7_Witness ==
  /\ Searched
  /\ \E i, j \in 1..Len(ret.value) :
       /\ i < j
       /\ ret.value[i].id = 1
       /\ Appended(ret.value[j].id)
       /\ ret.value[j].id >= 11
       /\ ret.value[j].language = ret.value[i].language
       /\ ret.value[j].question = ret.value[i].question
       /\ ret.value[j].similarity_score = ret.value[i].similarity_score
       /\ Less(Zero, ret.value[j].similarity_score)

---------------------------------------------------------------------------
(* Properties of the store and its files, checked under SpecPersist.       *)

\* C8: the ids in the store are pairwise distinct, and an id that
\* add_to_knowledge_base has given to one record is never given to another
C8_IdsUniqueNeverReused ==
  /\ \A i, j \in 1..Len(knowledge_base) :
       knowledge_base[i].id = knowledge_base[j].id => i = j
  /\ \A r1, r2 \in assigned : r1.id = r2.id => r1 = r2

---------------------------------------------------------------------------
(* Properties of the service, checked under SpecWeb.                       *)

\* a text that is empty once its whitespace is trimmed
Blank(text) == \A i \in 1..Len(text) : IsSpace(text[i])

\* a field of a request body, empty when the body does not hold it
Field(data, key) == IF key \in DOMAIN data THEN data[key] ELSE <<>>

\* an add request with a blank required field or a language off the list
Invalid(data) ==
  \/ Blank(Field(data, "language"))
  \/ Blank(Field(data, "question"))
  \/ Blank(Field(data, "answer"))
  \/ strip(Field(data, "language")) \notin SetOf(supported_languages)

\* C9: an add request whose language, question or answer is blank, or whose
\* language is not supported, is answered with an error, and neither the
\* store nor any file changes; the statistics endpoint reports the seed
\* records plus the accepted adds and nothing else
C9_InvalidAddRejected ==
  [][ /\ (response'.endpoint = "/add" /\ Invalid(response'.request)) =>
           /\ response'.status = 400
           /\ "error" \in DOMAIN response'.body
           /\ knowledge_base' = knowledge_base
           /\ files' = files
           /\ get_statistics(knowledge_base').total_entries
                = get_statistics(knowledge_base).total_entries
      /\ response'.endpoint = "/stats" =>
           response'.body.total_entries
             = Len(create_sample_knowledge_base) + Cardinality(assigned')
    ]_vars

\* a request with language "xx" and a question and an answer, rejected by a
\* service that has accepted an add before
C9_Witness ==
  /\ response.endpoint = "/add"
  /\ response.status = 400
  /\ Field(response.request, "language") = <<120, 120>>
  /\ ~Blank(Field(response.request, "question"))
  /\ ~Blank(Field(response.request, "answer"))
  /\ Len(knowledge_base) = Len(create_sample_knowledge_base) + 1
  /\ files["web_knowledge_base.json"].exists


---------------------------------------------------------------------------
\* C11: save_knowledge_base(f) followed by load_knowledge_base(f) on a fresh
\* system replaces that system's whole store, seed records included, with
\* the saved store: the same records in the same order, every field equal,
\* text outside ASCII and text the encoder escapes included. A save step
\* writes a file from which a system holding the seed store loads exactly
\* the saved store, and a load step of an existing file leaves nothing in
\* the store but what the file holds.
C11_RoundTrip ==
  [][ /\ ret'.op = "save_knowledge_base"
           => /\ files'[ret'.filename].exists
              /\ LoadedStore(create_sample_knowledge_base, files'[ret'.filename])
                   = knowledge_base
              /\ knowledge_base' = knowledge_base
      /\ (ret'.op = "load_knowledge_base" /\ files[ret'.filename].exists)
           => /\ knowledge_base' = json_load(files[ret'.filename].content)
              /\ json_dump(knowledge_base') = files[ret'.filename].content
    ]_vars

\* a saved file has been loaded, and the store it gave holds the added
\* record with a quote, a backslash, control characters and Japanese text
C11_Witness ==
  /\ ret.op = "load_knowledge_base"
  /\ ret.filename \in SaveNames
  /\ files[ret.filename].exists
  /\ Len(knowledge_base) > Len(create_sample_knowledge_base)
  /\ \E i \in 1..Len(knowledge_base) :
       /\ knowledge_base[i].question = <<113, 34, 92>>
       /\ knowledge_base[i].answer = <<97, 10, 9, 98, 1, 12354>>
  /\ knowledge_base = json_load(files[ret.filename].content)

---------------------------------------------------------------------------
\* C12: whenever a record is added with a blank category (absent, empty or
\* only whitespace), the stored record's category is "General"; stated for
\* the service's add endpoint, whose accepted request has just appended the
\* last record of the store
C12_BlankCategoryIsGeneral ==
  ( /\ response.endpoint = "/add"
    /\ response.status = 200
    /\ Blank(Field(response.request, "category")) )
    => knowledge_base[Len(knowledge_base)].category = General

---------------------------------------------------------------------------
(* The service's answer to a query, checked under SpecWeb.                 *)

\* a result the service keeps
Positive(r) == Less(Zero, r.similarity_score)

\* the answer at hand is that of a query with a non-blank question
Asked == response.endpoint = "/ask" /\ ~Blank(Field(response.request, "question"))

\* the answer to a query is made of the kept entries of a search with this
\* top_k, in ranking order, and its message counts them
AnswersSearchWith(k) ==
  LET found == search_answers(knowledge_base,
                              strip(Field(response.request, "question")), k)
      results == response.body.results
  IN  /\ response.status = 200
      /\ results = SelectSeq(found, Positive)
      /\ Len(results) <= k
      /\ \A i \in 1..Len(results) : results[i].similarity_score # Zero
      /\ response.body.message = "Found relevant answer(s)"
           => (results # <<>> /\ response.body.count = Len(results))
      /\ response.body.message = "No relevant answers found" => results = <<>>
      /\ response.body.message
           \in {"Found relevant answer(s)", "No relevant answers found"}

\* C13 as stated: for a query request with a non-blank question q and a
\* top_k override k, the results are exactly the entries of
\* search_answers(q, k) of score > 0 in ranking order (at most k, none of
\* score 0), and the count in the message is the number of results
C13_AskHonoursTopK ==
  (Asked /\ "top_k" \in DOMAIN response.request)
    => AnswersSearchWith(response.request.top_k)

\* C13: for a query request with a non-blank question q, whatever top_k the
\* request carries, the results are exactly the entries of
\* search_answers(q, 5) of score > 0 in ranking order (at most 5, none of
\* score 0), and the count in the message is the number of results
C13_AskSearchesTopFive ==
  Asked => AnswersSearchWith(5)

\* a request that asks for one result, with a question that more than five
\* records match, is answered with five
C13_Witness ==
  /\ Asked
  /\ "top_k" \in DOMAIN response.request
  /\ response.request.top_k = 1
  /\ Len(response.body.results) = 5
  /\ response.body.count = 5
  /\ Len(SelectSeq(search_answers(knowledge_base,
                                  strip(Field(response.request, "question")),
                                  Len(knowledge_base)), Positive)) > 5
  /\ Len(knowledge_base) > Len(create_sample_knowledge_base)

---------------------------------------------------------------------------
\* C14: add_to_knowledge_base called on an empty store (reached by loading a
\* file that holds an empty list) fails with an error and leaves the store
\* unchanged: the store is still empty afterwards, no record is appended,
\* and the call has assigned no id
C14_AddOnEmptyStoreFails ==
  [][ (ret'.op = "add_to_knowledge_base" /\ knowledge_base = <<>>)
        => /\ ret'.raised = "ValueError"
           /\ knowledge_base' = <<>>
           /\ assigned' = assigned
           /\ files' = files
    ]_vars

\* an add has failed on the store emptied by a load; an earlier add, on the
\* seed store, went through
C14_Witness ==
  /\ ret.op = "add_to_knowledge_base"
  /\ ret.raised = "ValueError"
  /\ knowledge_base = <<>>
  /\ assigned # {}

---------------------------------------------------------------------------
(* Two add requests handled at the same time, checked under                *)
(* SpecConcurrent.                                                         *)

\* the request of this thread has been accepted and answered
Handled(t) == handlers[t].pc = "done" /\ handlers[t].status = 200

\* the record at this place of the store is the one this thread's request
\* asked for
HoldsEntryOf(t, i) ==
  LET data == handlers[t].data
  IN  /\ knowledge_base[i].language = LanguageOf(data)
      /\ knowledge_base[i].question = QuestionOf(data)
      /\ knowledge_base[i].answer = AnswerOf(data)
      /\ knowledge_base[i].category = CategoryOf(data)

\* C15: when two valid add requests are handled concurrently against the
\* one store, the read of max(existing ids) and the append of each
\* interleaved in any order, both records end up in the store and they
\* have distinct ids
C15_ConcurrentAddsDistinctIds ==
  \A t, u \in Threads :
    (t # u /\ Handled(t) /\ Handled(u))
      => \E i, j \in (Len(create_sample_knowledge_base) + 1)..Len(knowledge_base) :
           /\ i # j
           /\ HoldsEntryOf(t, i)
           /\ HoldsEntryOf(u, j)
           /\ knowledge_base[i].id # knowledge_base[j].id
===========================================================================
